---- MODULE Spec2Model ----
(***************************************************************************)
(* A model of scripts/fetch-games.py: the catalog lookup, the direct and   *)
(* archive retrieval of a .swf file, and the batch loop of main().         *)
(*                                                                         *)
(* Python strings and byte buffers are sequences of character codes.       *)
(* A Python value that a call can return is a record [t, v]: t is the kind *)
(* of the value and v its payload.  A call that raises is the value Raise. *)
(***************************************************************************)
EXTENDS Integers, Sequences, FiniteSets, TLC

VARIABLES pc, i, run, files, results, catalog, match, swf, cdx, raised,
          log, writes, prev, direct_body, archive_body

vars == <<pc, i, run, files, results, catalog, match, swf, cdx, raised,
          log, writes, prev, direct_body, archive_body>>

(***************************************************************************)
(* Bounds of the model.                                                    *)
(***************************************************************************)
NumGames == 2      \* how many identifiers of GAMES a run goes through
MaxRuns == 2       \* how many times the script is run over the same storage
MaxResults == 2    \* longest list of catalog records in a catalog response

(***************************************************************************)
(* Python values.                                                          *)
(***************************************************************************)
None == [t |-> "none", v |-> <<>>]
Raise == [t |-> "raise", v |-> <<>>]
JNull == [t |-> "null", v |-> <<>>]
JNum(n) == [t |-> "num", v |-> <<n>>]
JStr(s) == [t |-> "str", v |-> s]
JList(s) == [t |-> "list", v |-> s]
JObj(f) == [t |-> "obj", v |-> f]
Bytes(b) == [t |-> "bytes", v |-> b]

\* Python truth value of x ("not x" is ~Truthy(x))
Truthy(x) ==
    CASE x.t = "none" -> FALSE
      [] x.t = "null" -> FALSE
      [] x.t = "num" -> x.v[1] # 0
      [] OTHER -> Len(x.v) > 0

\* str.lower() on ASCII
LowerChar(c) == IF c \in 65..90 THEN c + 32 ELSE c
Lower(s) == [k \in 1..Len(s) |-> LowerChar(s[k])]

\* str.startswith(p)
StartsWith(s, p) == Len(s) >= Len(p) /\ SubSeq(s, 1, Len(p)) = p

\* "p in s" for strings
Contains(s, p) ==
    \E k \in 0..(Len(s) - Len(p)) : SubSeq(s, k + 1, k + Len(p)) = p

\* str.replace(a, b) for single characters
ReplaceChar(s, a, b) == [k \in 1..Len(s) |-> IF s[k] = a THEN b ELSE s[k]]

\* str.title(): a cased character is upper-cased after an uncased one and
\* lower-cased after a cased one
IsCased(c) == c \in 65..90 \/ c \in 97..122
UpperChar(c) == IF c \in 97..122 THEN c - 32 ELSE c
Title(s) ==
    [k \in 1..Len(s) |->
        IF ~IsCased(s[k]) THEN s[k]
        ELSE IF k > 1 /\ IsCased(s[k - 1]) THEN LowerChar(s[k])
        ELSE UpperChar(s[k])]

(***************************************************************************)
(* Configuration data: lines 33-144.  GAMES is the first NumGames entries  *)
(* of a sub-list of the source's list, in the source's order.              *)
(***************************************************************************)
FLASHPOINT_API ==   \* "https://db-api.unstable.life"
    <<104,116,116,112,115,58,47,47,100,98,45,97,112,105,46,117,110,115,116,
      97,98,108,101,46,108,105,102,101>>
WAYBACK_CDX ==      \* "https://web.archive.org/cdx/search/cdx"
    <<104,116,116,112,115,58,47,47,119,101,98,46,97,114,99,104,105,118,101,
      46,111,114,103,47,99,100,120,47,115,101,97,114,99,104,47,99,100,120>>
\* "https://web.archive.org/web/{timestamp}oe_/{url}".format(...)
WAYBACK_RAW(timestamp, url) ==
    <<104,116,116,112,115,58,47,47,119,101,98,46,97,114,99,104,105,118,101,
      46,111,114,103,47,119,101,98,47>> \o timestamp \o <<111,101,95,47>> \o url

S_copter == <<99,111,112,116,101,114>>                       \* "copter"
S_feudalism_2 == <<102,101,117,100,97,108,105,115,109,45,50>> \* "feudalism-2"
S_run == <<114,117,110>>                                     \* "run"
S_tanks == <<116,97,110,107,115>>                            \* "tanks"
S_portal == <<112,111,114,116,97,108>>                       \* "portal"

TITLE_OVERRIDES ==
    [s \in {S_copter, S_portal} |->
        IF s = S_copter
        THEN <<72,101,108,105,99,111,112,116,101,114,32,71,97,109,101>>
             \* "Helicopter Game"
        ELSE <<80,111,114,116,97,108,58,32,84,104,101,32,70,108,97,115,104,
               32,86,101,114,115,105,111,110>>
             \* "Portal: The Flash Version"
    ]

AllGames == <<S_copter, S_feudalism_2, S_run, S_tanks>>
GAMES == SubSeq(AllGames, 1, IF NumGames < Len(AllGames) THEN NumGames ELSE Len(AllGames))
Slugs == {GAMES[k] : k \in 1..Len(GAMES)}

(***************************************************************************)
(* slug_to_title: lines 146-149                                            *)
(***************************************************************************)
\* slug_to_title without the lookup in the table
slug_to_title_default_only(slug) ==
    Title(ReplaceChar(ReplaceChar(slug, 45, 32), 95, 32))
slug_to_title(slug) ==
    IF slug \in DOMAIN TITLE_OVERRIDES
    THEN TITLE_OVERRIDES[slug]
    ELSE Title(ReplaceChar(ReplaceChar(slug, 45, 32), 95, 32))

(***************************************************************************)
(* urllib.parse.urlencode of one key/value pair list (quote_plus on ASCII) *)
(***************************************************************************)
HexDigits == <<48,49,50,51,52,53,54,55,56,57,65,66,67,68,69,70>>
QuoteChar(c) ==
    IF c \in 48..57 \/ c \in 65..90 \/ c \in 97..122 \/ c \in {45, 95, 46, 126}
    THEN <<c>>
    ELSE IF c = 32 THEN <<43>>
    ELSE <<37, HexDigits[(c \div 16) + 1], HexDigits[(c % 16) + 1]>>
RECURSIVE QuotePlus(_)
QuotePlus(s) ==
    IF s = <<>> THEN <<>> ELSE QuoteChar(Head(s)) \o QuotePlus(Tail(s))
RECURSIVE urlencode(_)
urlencode(pairs) ==
    IF pairs = <<>> THEN <<>>
    ELSE QuotePlus(pairs[1][1]) \o <<61>> \o QuotePlus(pairs[1][2])
         \o (IF Len(pairs) > 1 THEN <<38>> ELSE <<>>) \o urlencode(Tail(pairs))

(***************************************************************************)
(* JSON as Python sees it after json.loads.  An object is the sequence of  *)
(* its <<key, value>> pairs in insertion order.  A response body is either *)
(* Bytes(b), raw bytes that are no JSON text, or [t |-> "json"] holding    *)
(* the value its text denotes.                                             *)
(***************************************************************************)
JsonBody(j) == [t |-> "json", v |-> <<j>>]

\* json.loads(data): the value, or Raise for bytes that are no JSON text
json_loads(data) == IF data.t = "json" THEN data.v[1] ELSE Raise

K_title == <<116,105,116,108,101>>                                \* "title"
K_platform == <<112,108,97,116,102,111,114,109>>                  \* "platform"
K_launchCommand == <<108,97,117,110,99,104,67,111,109,109,97,110,100>> \* "launchCommand"

\* dict.get(key, default); raises AttributeError on anything but a dict
HasKey(o, key) == \E k \in 1..Len(o.v) : o.v[k][1] = key
Get(o, key, default) ==
    IF o.t # "obj" THEN Raise
    ELSE IF HasKey(o, key)
    THEN o.v[CHOOSE k \in 1..Len(o.v) :
                 o.v[k][1] = key /\ \A m \in (k + 1)..Len(o.v) : o.v[m][1] # key][2]
    ELSE default

\* what "for r in x" yields; iterating anything else raises TypeError
Iterable(x) == x.t \in {"list", "str", "obj"}
Iter(x) ==
    CASE x.t = "list" -> x.v
      [] x.t = "str" -> [k \in 1..Len(x.v) |-> JStr(<<x.v[k]>>)]
      [] x.t = "obj" -> [k \in 1..Len(x.v) |-> JStr(x.v[k][1])]

\* x[n] for a Python int n >= 0
Index(x, n) ==
    CASE x.t = "list" -> IF n < Len(x.v) THEN x.v[n + 1] ELSE Raise
      [] x.t = "str" -> IF n < Len(x.v) THEN JStr(<<x.v[n + 1]>>) ELSE Raise
      [] OTHER -> Raise

\* whether len(x) is defined (it raises TypeError on None and on numbers)
HasLen(x) == x.t \in {"list", "str", "obj"}

\* str(x), as str.format renders a field; the responses of the model hold
\* strings, numbers and null in the place that is formatted
RECURSIVE Decimal(_)
Decimal(n) ==
    IF n < 10 THEN <<48 + n>> ELSE Decimal(n \div 10) \o <<48 + (n % 10)>>
Str(x) ==
    CASE x.t = "str" -> x.v
      [] x.t = "num" -> Decimal(x.v[1])
      [] x.t = "null" -> <<78,111,110,101>>       \* "None"
      [] x.t = "list" /\ x.v = <<>> -> <<91,93>>  \* "[]"
      [] x.t = "obj" /\ x.v = <<>> -> <<123,125>> \* "{}"

(***************************************************************************)
(* http_get: lines 151-157.  resp is what urlopen(...).read() yields when  *)
(* the request is made: a body, or None for any exception inside the try.  *)
(* urllib.request.Request(url) is built outside the try and raises         *)
(* ValueError("unknown url type") for a url without a scheme, that is      *)
(* unless a colon follows one or more characters other than '/' and ':'.  *)
(* The result is the value returned and the requests issued.               *)
(***************************************************************************)
HasScheme(url) ==
    \E k \in 2..Len(url) :
        url[k] = 58 /\ \A m \in 1..(k - 1) : url[m] \notin {47, 58}

http_get(url, resp) ==
    IF ~HasScheme(url)
    THEN [ret |-> Raise, calls |-> <<>>]
    ELSE [ret |-> resp, calls |-> <<url>>]

(***************************************************************************)
(* search_flashpoint: lines 159-194                                        *)
(***************************************************************************)
FLASH == <<102,108,97,115,104>>   \* "flash"

\* the condition of loop 1 on record r: "raise", "true" or "false"
Test1(r, title_lower) ==
    LET t == Get(r, K_title, JStr(<<>>))
        p == Get(r, K_platform, JStr(<<>>))
    IN  IF t.t # "str" THEN "raise"
        ELSE IF Lower(t.v) # title_lower THEN "false"
        ELSE IF p.t # "str" THEN "raise"
        ELSE IF Contains(Lower(p.v), FLASH) THEN "true" ELSE "false"

\* the condition of loop 2
Test2(r, title_lower) ==
    LET t == Get(r, K_title, JStr(<<>>))
    IN  IF t.t # "str" THEN "raise"
        ELSE IF Lower(t.v) = title_lower THEN "true" ELSE "false"

\* the condition of loop 3
Test3(r, title_lower) ==
    LET p == Get(r, K_platform, JStr(<<>>))
    IN  IF p.t # "str" THEN "raise"
        ELSE IF Contains(Lower(p.v), FLASH) THEN "true" ELSE "false"

Test(rule, r, title_lower) ==
    CASE rule = 1 -> Test1(r, title_lower)
      [] rule = 2 -> Test2(r, title_lower)
      [] rule = 3 -> Test3(r, title_lower)

\* "for r in results: if <test>: return r" from item k on: the record
\* returned, Raise, or None when the loop falls through
RECURSIVE Loop(_, _, _, _)
Loop(rule, items, k, title_lower) ==
    IF k > Len(items) THEN None
    ELSE LET c == Test(rule, items[k], title_lower)
         IN  IF c = "raise" THEN Raise
             ELSE IF c = "true" THEN items[k]
             ELSE Loop(rule, items, k + 1, title_lower)

\* Select with rule 2 tried before rule 1
Select_title_first(parsed, title) ==
    IF ~Truthy(parsed) THEN None
    ELSE IF ~Iterable(parsed) THEN Raise
    ELSE LET title_lower == Lower(title)
             l1 == Loop(1, Iter(parsed), 1, title_lower)
             l2 == Loop(2, Iter(parsed), 1, title_lower)
             l3 == Loop(3, Iter(parsed), 1, title_lower)
         IN  IF l2 # None THEN l2
             ELSE IF l1 # None THEN l1
             ELSE IF l3 # None THEN l3
             ELSE Index(parsed, 0)

\* lines 173-194, on the parsed value
Select(parsed, title) ==
    IF ~Truthy(parsed) THEN None
    ELSE IF ~Iterable(parsed) THEN Raise
    ELSE LET title_lower == Lower(title)
             l1 == Loop(1, Iter(parsed), 1, title_lower)
             l2 == Loop(2, Iter(parsed), 1, title_lower)
             l3 == Loop(3, Iter(parsed), 1, title_lower)
         IN  IF l1 # None THEN l1
             ELSE IF l2 # None THEN l2
             ELSE IF l3 # None THEN l3
             ELSE Index(parsed, 0)

SearchUrl(title) ==
    FLASHPOINT_API \o <<47,115,101,97,114,99,104,63>> \o    \* "/search?"
    urlencode(<<
        <<K_title, title>>,
        \* "fields": "id,title,platform,launchCommand"
        <<<<102,105,101,108,100,115>>,
          <<105,100,44,116,105,116,108,101,44,112,108,97,116,102,111,114,109,
            44,108,97,117,110,99,104,67,111,109,109,97,110,100>>>>,
        \* "limit": "15"
        <<<<108,105,109,105,116>>, <<49,53>>>> >>)

search_flashpoint(title, resp) ==
    LET g == http_get(SearchUrl(title), resp)
        data == g.ret
        parsed == json_loads(data)
    IN  [calls |-> g.calls,
         ret |-> IF data = Raise THEN Raise
                 ELSE IF ~Truthy(data) THEN None
                 ELSE IF parsed = Raise THEN None
                 ELSE Select(parsed, title)]

(***************************************************************************)
(* is_valid_swf: lines 196-200                                             *)
(***************************************************************************)
Signatures == {<<70,87,83>>, <<67,87,83>>, <<90,87,83>>}   \* FWS, CWS, ZWS

\* is_valid_swf accepting the uncompressed signature only
is_valid_swf_fws_only(data) ==
    IF ~Truthy(data) \/ Len(data.v) < 8 THEN FALSE
    ELSE SubSeq(data.v, 1, 3) = <<70,87,83>>

\* is_valid_swf asking for the three bytes of a signature only
is_valid_swf_any_length(data) ==
    IF ~Truthy(data) \/ Len(data.v) < 3 THEN FALSE
    ELSE SubSeq(data.v, 1, 3) \in Signatures

is_valid_swf(data) ==
    IF ~Truthy(data) \/ Len(data.v) < 8 THEN FALSE
    ELSE SubSeq(data.v, 1, 3) \in Signatures

(***************************************************************************)
(* try_direct: lines 202-209.  url is launch_cmd, a JSON value.            *)
(***************************************************************************)
LOCALFLASH ==    \* "http://localflash"
    <<104,116,116,112,58,47,47,108,111,99,97,108,102,108,97,115,104>>

\* Unusable without the test of the prefix
Unusable_no_prefix(url) ==
    IF ~Truthy(url) THEN "true"
    ELSE IF url.t # "str" THEN "raise"
    ELSE "false"

\* "not url or url.startswith(...)": "raise" when url has no startswith
Unusable(url) ==
    IF ~Truthy(url) THEN "true"
    ELSE IF url.t # "str" THEN "raise"
    ELSE IF StartsWith(url.v, LOCALFLASH) THEN "true" ELSE "false"

\* try_direct returning the body without validating it
try_direct_unchecked(url, resp) ==
    IF Unusable(url) = "true" THEN [ret |-> None, calls |-> <<>>]
    ELSE IF Unusable(url) = "raise" THEN [ret |-> Raise, calls |-> <<>>]
    ELSE http_get(url.v, resp)

try_direct(url, resp) ==
    IF Unusable(url) = "true" THEN [ret |-> None, calls |-> <<>>]
    ELSE IF Unusable(url) = "raise" THEN [ret |-> Raise, calls |-> <<>>]
    ELSE LET g == http_get(url.v, resp)
         IN  [calls |-> g.calls,
              ret |-> IF g.ret = Raise THEN Raise
                      ELSE IF is_valid_swf(g.ret) THEN g.ret ELSE None]

(***************************************************************************)
(* try_wayback: lines 211-241.  resp1 answers the CDX query and resp2 the  *)
(* download of the snapshot.                                               *)
(***************************************************************************)
CdxUrl(url) ==
    WAYBACK_CDX \o <<63>> \o
    urlencode(<<
        <<<<117,114,108>>, url>>,                                 \* "url"
        <<<<111,117,116,112,117,116>>, <<106,115,111,110>>>>,     \* "output": "json"
        <<<<108,105,109,105,116>>, <<49>>>>,                      \* "limit": "1"
        \* "fl": "timestamp,statuscode"
        <<<<102,108>>,
          <<116,105,109,101,115,116,97,109,112,44,115,116,97,116,117,115,99,
            111,100,101>>>>,
        \* "filter": "statuscode:200"
        <<<<102,105,108,116,101,114>>,
          <<115,116,97,116,117,115,99,111,100,101,58,50,48,48>>>> >>)

\* WaybackRows reading the timestamp from the header row
WaybackRows_header(url, cdx_data, resp2) ==
    LET rows == json_loads(cdx_data)
        timestamp == Index(Index(rows, 0), 0)
        g == http_get(WAYBACK_RAW(Str(timestamp), url), resp2)
    IN  IF rows = Raise THEN [ret |-> None, calls |-> <<>>]
        ELSE IF ~HasLen(rows) THEN [ret |-> Raise, calls |-> <<>>]
        ELSE IF Len(rows.v) < 2 THEN [ret |-> None, calls |-> <<>>]
        ELSE IF Index(rows, 1) = Raise THEN [ret |-> Raise, calls |-> <<>>]
        ELSE IF timestamp = Raise THEN [ret |-> Raise, calls |-> <<>>]
        ELSE [calls |-> g.calls,
              ret |-> IF g.ret = Raise THEN Raise
                      ELSE IF is_valid_swf(g.ret) THEN g.ret ELSE None]

\* lines 227-241, on the body of the CDX answer
WaybackRows(url, cdx_data, resp2) ==
    LET rows == json_loads(cdx_data)
        timestamp == Index(Index(rows, 1), 0)
        g == http_get(WAYBACK_RAW(Str(timestamp), url), resp2)
    IN  IF rows = Raise THEN [ret |-> None, calls |-> <<>>]
        ELSE IF ~HasLen(rows) THEN [ret |-> Raise, calls |-> <<>>]
        ELSE IF Len(rows.v) < 2 THEN [ret |-> None, calls |-> <<>>]
        ELSE IF Index(rows, 1) = Raise THEN [ret |-> Raise, calls |-> <<>>]
        ELSE IF timestamp = Raise THEN [ret |-> Raise, calls |-> <<>>]
        ELSE [calls |-> g.calls,
              ret |-> IF g.ret = Raise THEN Raise
                      ELSE IF is_valid_swf(g.ret) THEN g.ret ELSE None]

try_wayback(url, resp1, resp2) ==
    IF Unusable(url) = "true" THEN [ret |-> None, calls |-> <<>>]
    ELSE IF Unusable(url) = "raise" THEN [ret |-> Raise, calls |-> <<>>]
    ELSE LET g == http_get(CdxUrl(url.v), resp1)
             w == WaybackRows(url.v, g.ret, resp2)
         IN  IF g.ret = Raise THEN [ret |-> Raise, calls |-> <<>>]
             ELSE IF ~Truthy(g.ret) THEN [ret |-> None, calls |-> g.calls]
             ELSE [ret |-> w.ret, calls |-> g.calls \o w.calls]

(***************************************************************************)
(* What the external services can answer.                                  *)
(***************************************************************************)
FWS8 == <<70,87,83,9,97,98,99,100>>     \* b"FWS\tabcd", 8 bytes
CWS8 == <<67,87,83,10,97,98,99,100>>    \* b"CWS\nabcd", 8 bytes
FWS7 == <<70,87,83,9,97,98,99>>         \* b"FWS\tabc", 7 bytes
HTML == <<60,104,116,109,108,62,46,46,46>>  \* b"<html>..."

\* a download: no answer, or a body
DownloadResponses ==
    {None, Bytes(<<>>), Bytes(FWS8), Bytes(CWS8), Bytes(FWS7), Bytes(HTML)}

Absent == [t |-> "absent", v |-> <<>>]
GoodUrl == <<104,116,116,112,58,47,47,104,46,105,111,47,103,46,115,119,102>>
    \* "http://h.io/g.swf"
DeadUrl == LOCALFLASH \o <<47,103,46,115,119,102>>  \* "http://localflash/g.swf"
BareUrl == <<103,46,115,119,102>>                   \* "g.swf", no scheme
OtherTitle == <<79,116,104,101,114,32,71,97,109,101>>  \* "Other Game"
P_Flash == <<70,108,97,115,104>>                    \* "Flash"
P_HTML5 == <<72,84,77,76,53>>                       \* "HTML5"

\* a catalog record holding the fields that are not Absent
Rec(t, p, l) ==
    JObj(SelectSeq(<<<<K_title, t>>, <<K_platform, p>>, <<K_launchCommand, l>>>>,
                   LAMBDA kv : kv[2] # Absent))

TitleValues(title) ==
    {Absent, JNull, JStr(title), JStr(Lower(title)), JStr(OtherTitle)}
PlatformValues == {Absent, JNull, JStr(P_Flash), JStr(P_HTML5)}
CommandValues ==
    {Absent, JNull, JStr(<<>>), JStr(GoodUrl), JStr(DeadUrl), JStr(BareUrl),
     JNum(5)}

\* JSON values that are no list of records
NotRecords ==
    {JNull, JList(<<>>), JObj(<<>>), JNum(5),
     JObj(<<<<<<101,114,114,111,114>>, JStr(OtherTitle)>>>>),  \* {"error": ...}
     JList(<<JNum(5)>>), JList(<<JNull>>)}

\* the catalog answers a run is checked against: any failure, any JSON that
\* is no list of records, the empty record, a record without a usable title,
\* and a record about the title with every launch command
CatalogResponses(title) ==
    {None, Bytes(<<>>), Bytes(HTML)}
    \cup {JsonBody(j) : j \in NotRecords}
    \cup {JsonBody(JList(<<Rec(Absent, Absent, Absent)>>)),
          JsonBody(JList(<<Rec(JNull, JStr(P_Flash), JStr(GoodUrl))>>))}
    \cup {JsonBody(JList(<<Rec(JStr(title), JStr(P_Flash), l)>>)) :
            l \in CommandValues}

T_full == <<50,48,49,48,48,49,48,49,48,48,48,48,48,48>>   \* "20100101000000"
CdxHeader ==   \* ["timestamp", "statuscode"]
    JList(<<JStr(<<116,105,109,101,115,116,97,109,112>>),
            JStr(<<115,116,97,116,117,115,99,111,100,101>>)>>)
CdxRow(ts) == JList(<<ts, JStr(<<50,48,48>>)>>)           \* [ts, "200"]

CdxResponses ==
    {None, Bytes(<<>>), Bytes(HTML)}
    \cup {JsonBody(j) : j \in
            {JNull, JObj(<<>>), JList(<<>>), JList(<<CdxHeader>>),
             JList(<<CdxHeader, CdxRow(JStr(T_full))>>),
             JList(<<CdxHeader, JList(<<>>)>>),
             JList(<<CdxHeader, JNull>>)}}

(***************************************************************************)
(* State.                                                                  *)
(*   pc       where main is: "main" at the top of the loop, "direct",      *)
(*            "wayback", "save" inside fetch_game, "sleep", "done" after   *)
(*            the summary, "crashed" after an uncaught exception           *)
(*   i        index into GAMES of the identifier being processed           *)
(*   files    the games directory: slug -> content, None when no file     *)
(*   results  main's dict of the three outcome lists                       *)
(*   match, swf   locals of fetch_game                                     *)
(*   catalog, cdx   the body search_flashpoint or try_wayback was given    *)
(*            when it raised                                               *)
(*   raised   the function an uncaught exception came from                 *)
(*   log      the requests and sleeps of this run, in order                *)
(*   writes   how often fetch_game has written each file                   *)
(*   prev     how the previous run ended                                   *)
(*   direct_body, archive_body   what the original host and the archive     *)
(*            answer a download with, where retrieval is followed alone    *)
(***************************************************************************)
NoResults == [ok |-> <<>>, skip |-> <<>>, fail |-> <<>>]
NoRun == [pc |-> "none", results |-> NoResults, files |-> [s \in Slugs |-> None]]

\* main, lines 293-297: a fresh process
Start ==
    /\ pc = "main"
    /\ i = 1
    /\ results = NoResults
    /\ catalog = None /\ match = None /\ swf = None /\ cdx = None
    /\ raised = "none"
    /\ log = <<>>

Init ==
    /\ Start
    /\ run = 1
    /\ files \in [Slugs -> {None, Bytes(HTML)}]
    /\ writes = [s \in Slugs |-> 0]
    /\ prev = NoRun
    /\ direct_body = None /\ archive_body = None

slug == GAMES[i]
launch_cmd == Get(match, K_launchCommand, JStr(<<>>))
Entries(kinds, calls) ==
    [k \in 1..Len(calls) |-> [slug |-> slug, kind |-> kinds[k], url |-> calls[k]]]
\* Record putting the identifier at the head of its list
Record_prepend(outcome) == [results EXCEPT ![outcome] = <<slug>> \o @]
Record(outcome) == [results EXCEPT ![outcome] = Append(@, slug)]

\* an uncaught exception ends the process
Crash(fn) ==
    /\ pc' = "crashed"
    /\ raised' = fn
    /\ UNCHANGED <<i, results>>

\* Skip with the delay taken after a skipped identifier too
Skip_sleeps ==
    /\ pc = "main" /\ i <= Len(GAMES)
    /\ files[slug] # None
    /\ results' = Record("skip")
    /\ i' = i + 1
    /\ log' = Append(log, [slug |-> slug, kind |-> "sleep", url |-> <<>>])
    /\ UNCHANGED <<pc, run, files, catalog, match, swf, cdx, raised, writes, prev>>
    /\ UNCHANGED <<direct_body, archive_body>>

\* fetch_game lines 247-250 with main lines 299-305: the file exists
Skip ==
    /\ pc = "main" /\ i <= Len(GAMES)
    /\ files[slug] # None
    /\ results' = Record("skip")
    /\ i' = i + 1
    /\ UNCHANGED <<pc, run, files, catalog, match, swf, cdx, raised, log,
                   writes, prev>>
    /\ UNCHANGED <<direct_body, archive_body>>

\* Search without the test that the file does not exist yet
Search_again ==
    /\ pc = "main" /\ i <= Len(GAMES)
    /\ \E resp \in CatalogResponses(slug_to_title(slug)) :
         LET r == search_flashpoint(slug_to_title(slug), resp)
         IN  /\ log' = log \o Entries(<<"catalog">>, r.calls)
             /\ IF r.ret = Raise
                THEN Crash("search_flashpoint") /\ catalog' = resp
                     /\ UNCHANGED match
                ELSE IF ~Truthy(r.ret)
                THEN /\ results' = Record("fail")
                     /\ pc' = "sleep"
                     /\ UNCHANGED <<i, catalog, match, raised>>
                ELSE /\ match' = r.ret
                     /\ pc' = "direct"
                     /\ UNCHANGED <<i, results, catalog, raised>>
    /\ UNCHANGED <<run, files, swf, cdx, writes, prev>>
    /\ UNCHANGED <<direct_body, archive_body>>

\* fetch_game lines 244-263: no file, so the catalog is searched
Search ==
    /\ pc = "main" /\ i <= Len(GAMES)
    /\ files[slug] = None
    /\ \E resp \in CatalogResponses(slug_to_title(slug)) :
         LET r == search_flashpoint(slug_to_title(slug), resp)
         IN  /\ log' = log \o Entries(<<"catalog">>, r.calls)
             /\ IF r.ret = Raise
                THEN Crash("search_flashpoint") /\ catalog' = resp
                     /\ UNCHANGED match
                ELSE IF ~Truthy(r.ret)
                THEN /\ results' = Record("fail")
                     /\ pc' = "sleep"
                     /\ UNCHANGED <<i, catalog, match, raised>>
                ELSE /\ match' = r.ret
                     /\ pc' = "direct"
                     /\ UNCHANGED <<i, results, catalog, raised>>
    /\ UNCHANGED <<run, files, swf, cdx, writes, prev>>
    /\ UNCHANGED <<direct_body, archive_body>>

\* Direct with the archive step taken whatever the direct step returned
DirectWith_always_fallback(resp) ==
    /\ pc = "direct"
    /\ LET d == try_direct(launch_cmd, resp)
       IN  /\ log' = log \o Entries(<<"direct">>, d.calls)
           /\ IF d.ret = Raise
              THEN Crash("try_direct") /\ UNCHANGED swf
              ELSE /\ swf' = d.ret
                   /\ pc' = "wayback"
                   /\ UNCHANGED <<i, results, raised>>
    /\ UNCHANGED <<run, files, catalog, match, cdx, writes, prev>>
    /\ UNCHANGED <<direct_body, archive_body>>

\* DirectWith issuing the direct fetch a second time
DirectWith_retry(resp) ==
    /\ pc = "direct"
    /\ LET d == try_direct(launch_cmd, resp)
       IN  /\ log' = log \o Entries(<<"direct">>, d.calls)
                        \o Entries(<<"direct">>, d.calls)
           /\ IF d.ret = Raise
              THEN Crash("try_direct") /\ UNCHANGED swf
              ELSE /\ swf' = d.ret
                   /\ pc' = IF Truthy(d.ret) THEN "save" ELSE "wayback"
                   /\ UNCHANGED <<i, results, raised>>
    /\ UNCHANGED <<run, files, catalog, match, cdx, writes, prev>>
    /\ UNCHANGED <<direct_body, archive_body>>

\* fetch_game lines 265-271, the original host answering resp
DirectWith(resp) ==
    /\ pc = "direct"
    /\ LET d == try_direct(launch_cmd, resp)
       IN  /\ log' = log \o Entries(<<"direct">>, d.calls)
           /\ IF d.ret = Raise
              THEN Crash("try_direct") /\ UNCHANGED swf
              ELSE /\ swf' = d.ret
                   /\ pc' = IF Truthy(d.ret) THEN "save" ELSE "wayback"
                   /\ UNCHANGED <<i, results, raised>>
    /\ UNCHANGED <<run, files, catalog, match, cdx, writes, prev>>
    /\ UNCHANGED <<direct_body, archive_body>>

Direct == \E resp \in DownloadResponses : DirectWith(resp)

\* fetch_game lines 273-280, the archive answering resp1 to the index query
\* and resp2 to the download
WaybackWith(resp1, resp2) ==
    /\ pc = "wayback"
    /\ LET w == try_wayback(launch_cmd, resp1, resp2)
       IN  /\ log' = log \o Entries(<<"cdx", "raw">>, w.calls)
           /\ IF w.ret = Raise
              THEN Crash("try_wayback") /\ cdx' = resp1 /\ UNCHANGED swf
              ELSE /\ swf' = w.ret
                   /\ pc' = "save"
                   /\ UNCHANGED <<i, results, cdx, raised>>
    /\ UNCHANGED <<run, files, catalog, match, writes, prev>>
    /\ UNCHANGED <<direct_body, archive_body>>

Wayback ==
    \E resp1 \in CdxResponses, resp2 \in DownloadResponses :
        WaybackWith(resp1, resp2)

\* Save opening the file for writing before it looks at swf
Save_touch ==
    /\ pc = "save"
    /\ files' = [files EXCEPT ![slug] = IF Truthy(swf) THEN swf ELSE Bytes(<<>>)]
    /\ IF Truthy(swf)
       THEN /\ writes' = [writes EXCEPT ![slug] = @ + 1]
            /\ results' = Record("ok")
       ELSE /\ results' = Record("fail")
            /\ UNCHANGED writes
    /\ pc' = "sleep"
    /\ UNCHANGED <<i, run, catalog, match, swf, cdx, raised, log, prev>>
    /\ UNCHANGED <<direct_body, archive_body>>

\* Save reporting "ok" without the file being there afterwards
Save_no_write ==
    /\ pc = "save"
    /\ IF Truthy(swf)
       THEN results' = Record("ok")
       ELSE results' = Record("fail")
    /\ pc' = "sleep"
    /\ UNCHANGED <<i, run, files, writes, catalog, match, swf, cdx, raised, log,
                   prev>>
    /\ UNCHANGED <<direct_body, archive_body>>

\* Save reporting "ok" whether or not a file was written
Save_reports_ok ==
    /\ pc = "save"
    /\ IF Truthy(swf)
       THEN /\ files' = [files EXCEPT ![slug] = swf]
            /\ writes' = [writes EXCEPT ![slug] = @ + 1]
       ELSE UNCHANGED <<files, writes>>
    /\ results' = Record("ok")
    /\ pc' = "sleep"
    /\ UNCHANGED <<i, run, catalog, match, swf, cdx, raised, log, prev>>
    /\ UNCHANGED <<direct_body, archive_body>>

\* fetch_game lines 282-290 with main line 302
Save ==
    /\ pc = "save"
    /\ IF Truthy(swf)
       THEN /\ files' = [files EXCEPT ![slug] = swf]
            /\ writes' = [writes EXCEPT ![slug] = @ + 1]
            /\ results' = Record("ok")
       ELSE /\ results' = Record("fail")
            /\ UNCHANGED <<files, writes>>
    /\ pc' = "sleep"
    /\ UNCHANGED <<i, run, catalog, match, swf, cdx, raised, log, prev>>
    /\ UNCHANGED <<direct_body, archive_body>>

\* Sleep going on to the next identifier without the delay
Sleep_no_delay ==
    /\ pc = "sleep"
    /\ i' = i + 1
    /\ pc' = "main"
    /\ catalog' = None /\ match' = None /\ swf' = None /\ cdx' = None
    /\ UNCHANGED <<run, files, results, raised, log, writes, prev>>
    /\ UNCHANGED <<direct_body, archive_body>>

\* main lines 303-305 after an outcome other than "skip"
Sleep ==
    /\ pc = "sleep"
    /\ log' = Append(log, [slug |-> slug, kind |-> "sleep", url |-> <<>>])
    /\ i' = i + 1
    /\ pc' = "main"
    /\ catalog' = None /\ match' = None /\ swf' = None /\ cdx' = None
    /\ UNCHANGED <<run, files, results, raised, writes, prev>>
    /\ UNCHANGED <<direct_body, archive_body>>

\* main lines 307-316: the loop is over and the summary is printed
Summary ==
    /\ pc = "main" /\ i > Len(GAMES)
    /\ pc' = "done"
    /\ UNCHANGED <<i, run, files, results, catalog, match, swf, cdx, raised,
                   log, writes, prev>>
    /\ UNCHANGED <<direct_body, archive_body>>

\* the script is run again over the storage the last run left
NextRun ==
    /\ pc \in {"done", "crashed"}
    /\ run < MaxRuns
    /\ run' = run + 1
    /\ prev' = [pc |-> pc, results |-> results, files |-> files]
    /\ pc' = "main"
    /\ i' = 1
    /\ results' = NoResults
    /\ catalog' = None /\ match' = None /\ swf' = None /\ cdx' = None
    /\ raised' = "none"
    /\ log' = <<>>
    /\ UNCHANGED <<files, writes>>
    /\ UNCHANGED <<direct_body, archive_body>>

Next ==
    \/ Skip
    \/ Search
    \/ Direct
    \/ Wayback
    \/ Save
    \/ Sleep
    \/ Summary
    \/ NextRun

Spec == Init /\ [][Next]_vars

(***************************************************************************)
(* search_flashpoint on its own: the answer of the catalog is drawn from   *)
(* every list of up to MaxResults records, and the call is applied to it.  *)
(***************************************************************************)
SearchRecords(title) ==
    {Rec(t, p, JStr(GoodUrl)) : t \in TitleValues(title), p \in PlatformValues}

RECURSIVE Lists(_, _)
Lists(S, n) ==
    IF n = 0 THEN {<<>>}
    ELSE Lists(S, n - 1) \cup {Append(l, x) : l \in Lists(S, n - 1), x \in S}

SearchResponses(title) ==
    {None, Bytes(<<>>), Bytes(HTML)}
    \cup {JsonBody(j) : j \in NotRecords}
    \cup {JsonBody(JList(l)) : l \in Lists(SearchRecords(title), MaxResults)}

InitSearch ==
    /\ pc = "search_flashpoint"
    /\ i \in 1..Len(GAMES)
    /\ catalog \in SearchResponses(slug_to_title(GAMES[i]))
    /\ run = 1
    /\ results = NoResults
    /\ match = None /\ swf = None /\ cdx = None
    /\ raised = "none"
    /\ log = <<>>
    /\ files = [s \in Slugs |-> None]
    /\ writes = [s \in Slugs |-> 0]
    /\ prev = NoRun
    /\ direct_body = None /\ archive_body = None

\* line 253: match = search_flashpoint(title), with the catalog's answer
Resolve ==
    /\ pc = "search_flashpoint"
    /\ LET r == search_flashpoint(slug_to_title(slug), catalog)
       IN  /\ match' = r.ret
           /\ raised' = IF r.ret = Raise THEN "search_flashpoint" ELSE "none"
           /\ log' = log \o Entries(<<"catalog">>, r.calls)
    /\ pc' = "returned"
    /\ UNCHANGED <<i, run, files, results, catalog, swf, cdx, writes, prev>>
    /\ UNCHANGED <<direct_body, archive_body>>

NextSearch == Resolve

SpecSearch == InitSearch /\ [][NextSearch]_vars

(***************************************************************************)
(* The retrieval of fetch_game on its own, lines 255-290: a record with a  *)
(* usable launch command has been found; the original host answers with    *)
(* direct_body, the archive answers the index query with cdx and the       *)
(* download of the snapshot with archive_body.                             *)
(***************************************************************************)
MaxLen == 9

Pad(n) == [k \in 1..n |-> 97]
Prefixes ==
    Signatures \cup {<<70,87,88>>, <<88,87,83>>, <<60,104,116>>}  \* FWX XWS <ht

\* no answer, the bodies shorter than a signature, and every prefix at every
\* length up to MaxLen
Buffers ==
    {None, Bytes(<<>>), Bytes(<<70>>), Bytes(<<70,87>>)}
    \cup {Bytes(p \o Pad(n)) : p \in Prefixes, n \in 0..(MaxLen - 3)}

T_year == <<50,48,49,48>>                                 \* "2010"
IndexResponses ==
    CdxResponses
    \cup {JsonBody(JList(rows)) : rows \in
            {<<CdxHeader, CdxRow(JStr(T_year))>>,
             <<CdxHeader, CdxRow(JNum(2010))>>,
             <<CdxHeader, CdxRow(JStr(T_full)), CdxRow(JStr(T_year))>>}}

SnapshotResponses == {None, Bytes(FWS8), Bytes(CWS8), Bytes(FWS7), Bytes(HTML)}

\* after line 263: the catalog has been asked and has answered with a record
InitRetrieve ==
    /\ pc = "direct"
    /\ i \in 1..Len(GAMES)
    /\ match = Rec(JStr(slug_to_title(GAMES[i])), JStr(P_Flash), JStr(GoodUrl))
    /\ direct_body \in Buffers
    /\ cdx \in IndexResponses
    /\ archive_body \in SnapshotResponses
    /\ run = 1
    /\ results = NoResults
    /\ catalog = None /\ swf = None
    /\ raised = "none"
    /\ log = <<[slug |-> GAMES[i], kind |-> "catalog",
                url |-> SearchUrl(slug_to_title(GAMES[i]))]>>
    /\ files = [s \in Slugs |-> None]
    /\ writes = [s \in Slugs |-> 0]
    /\ prev = NoRun

DirectGiven == DirectWith(direct_body)

WaybackGiven == WaybackWith(cdx, archive_body)

NextRetrieve ==
    \/ DirectGiven
    \/ WaybackGiven
    \/ Save

SpecRetrieve == InitRetrieve /\ [][NextRetrieve]_vars

(***************************************************************************)
(* Properties.                                                             *)
(***************************************************************************)
Range(q) == {q[k] : k \in 1..Len(q)}
Archive == {"cdx", "raw"}
\* the entries a step adds to the log
Added == SubSeq(log', Len(log) + 1, Len(log'))

\* C1: every file fetch_game has written holds a buffer that passes
\* is_valid_swf, whatever the catalog, the original host and the archive
\* answered.
C1_WrittenIsValid ==
    \A s \in Slugs : writes[s] > 0 => is_valid_swf(files[s])

C1_Witness ==
    \E s \in Slugs : writes[s] > 0 /\ files[s] = Bytes(CWS8)

\* C2: an identifier whose file exists is recorded as "skip" in one step that
\* issues no request, takes no delay and leaves the storage as it is.
C2_SkipIsFree ==
    [][(pc = "main" /\ i <= Len(GAMES) /\ files[slug] # None)
        => /\ results' = [results EXCEPT !.skip = Append(@, slug)]
           /\ log' = log
           /\ files' = files /\ writes' = writes
           /\ i' = i + 1 /\ pc' = "main"]_vars

C2_Witness ==
    /\ results.skip # <<>>
    /\ \A k \in 1..Len(log) : log[k].slug \notin Range(results.skip)
    /\ log # <<>>

\* C3: no answer of the external services makes a component raise, so main
\* never stops before the end of the list.
C3_NeverAborts == pc # "crashed"

\* C4: search_flashpoint returns None and does not raise for a failed
\* request, an empty body, a body that is not JSON, an empty list, a JSON
\* value that is no list of records, and records whose title or platform is
\* absent or null.
IsText(r, key) == r.t = "obj" /\ HasKey(r, key) /\ Get(r, key, JNull).t = "str"
ProperRecords(j) ==
    /\ j.t = "list" /\ j.v # <<>>
    /\ \A k \in 1..Len(j.v) : IsText(j.v[k], K_title) /\ IsText(j.v[k], K_platform)
Malformed(data) == data.t # "json" \/ ~ProperRecords(data.v[1])

C4_MalformedGivesNone ==
    (pc = "returned" /\ Malformed(catalog)) => (match = None /\ raised = "none")

\* C5: no answer to the direct fetch, to the archive index query or to the
\* archive download makes try_direct or try_wayback raise.
C5_RetrievalNeverRaises == raised \notin {"try_direct", "try_wayback"}

\* C6: over a non-empty list of records (title and platform each a string
\* or absent), search_flashpoint returns the first record with the title of
\* the search, ignoring case, and "flash" in the platform; else the first
\* with that title; else the first with "flash" in the platform; else the
\* first record; the record returned is an element of the list.
TextOf(r, key) == IF HasKey(r, key) THEN Get(r, key, JNull).v ELSE <<>>
SameTitle(r, title) == Lower(TextOf(r, K_title)) = Lower(title)
OnFlash(r) == Contains(Lower(TextOf(r, K_platform)), FLASH)
Rule(n, r, title) ==
    CASE n = 1 -> SameTitle(r, title) /\ OnFlash(r)
      [] n = 2 -> SameTitle(r, title)
      [] n = 3 -> OnFlash(r)
      [] n = 4 -> TRUE
Records(j) ==
    /\ j.t = "list" /\ j.v # <<>>
    /\ \A k \in 1..Len(j.v) :
         /\ j.v[k].t = "obj"
         /\ \A key \in {K_title, K_platform} :
              HasKey(j.v[k], key) => Get(j.v[k], key, JNull).t = "str"
\* the position the policy selects
Selected(l, title) ==
    LET n == CHOOSE n \in 1..4 :
                 /\ \E k \in 1..Len(l) : Rule(n, l[k], title)
                 /\ \A m \in 1..(n - 1) : \A k \in 1..Len(l) : ~Rule(m, l[k], title)
    IN  CHOOSE k \in 1..Len(l) :
            /\ Rule(n, l[k], title)
            /\ \A m \in 1..(k - 1) : ~Rule(n, l[m], title)

C6_SelectionPolicy ==
    (pc = "returned" /\ catalog.t = "json" /\ Records(catalog.v[1]))
    => LET l == catalog.v[1].v
       IN  /\ match = l[Selected(l, slug_to_title(slug))]
           /\ match \in Range(l)
           /\ raised = "none"

C6_Witness ==
    /\ pc = "returned" /\ catalog.t = "json" /\ Records(catalog.v[1])
    /\ LET l == catalog.v[1].v
           title == slug_to_title(slug)
       IN  /\ Len(l) = 2
           /\ SameTitle(l[1], title) /\ ~OnFlash(l[1])
           /\ SameTitle(l[2], title) /\ OnFlash(l[2])
           /\ match = l[2] /\ match # l[1]

\* C7: a request to the archive is issued only from the archive step, which
\* is entered with no buffer after the direct step failed: the request that
\* precedes an archive index query in the log is the direct fetch of the
\* same identifier, and no archive request is issued while a validated
\* buffer is held.
C7_ArchiveOnlyAfterDirectFailed ==
    /\ [](\A k \in 1..Len(log) :
            /\ log[k].kind = "cdx" =>
                 k > 1 /\ log[k - 1].kind = "direct" /\ log[k - 1].slug = log[k].slug
            /\ log[k].kind = "raw" =>
                 k > 1 /\ log[k - 1].kind = "cdx" /\ log[k - 1].slug = log[k].slug)
    /\ [][(\E k \in 1..Len(Added) : Added[k].kind \in Archive)
           => (pc = "wayback" /\ swf = None)]_vars
    /\ [][(pc = "direct" /\ swf' # swf) => (is_valid_swf(swf') /\ pc' = "save")]_vars

C7_Witness ==
    /\ pc = "save" /\ swf = Bytes(CWS8)
    /\ Len(log) >= 3
    /\ log[Len(log)].kind = "raw" /\ log[Len(log) - 1].kind = "cdx"
    /\ log[Len(log) - 2].kind = "direct"

\* C8: when the launch command of the resolved record is absent, null, empty
\* or begins with "http://localflash", no direct fetch, archive index query
\* or archive download is issued for the identifier and its outcome is
\* "fail".
MissingOrDead(r) ==
    \/ ~HasKey(r, K_launchCommand)
    \/ Get(r, K_launchCommand, JNull) \in {JNull, JStr(<<>>)}
    \/ /\ Get(r, K_launchCommand, JNull).t = "str"
       /\ StartsWith(Get(r, K_launchCommand, JNull).v, LOCALFLASH)

C8_DeadUrlNoRequests ==
    (match # None /\ MissingOrDead(match))
    => /\ \A k \in 1..Len(log) :
            log[k].slug = slug => log[k].kind \notin {"direct", "cdx", "raw"}
       /\ swf = None
       /\ pc \in {"direct", "wayback", "save", "sleep"}
       /\ pc = "sleep" =>
            /\ results.fail # <<>> /\ results.fail[Len(results.fail)] = slug
            /\ slug \notin Range(results.ok)
            /\ files[slug] = None

C8_Witness ==
    /\ pc = "sleep" /\ match # None
    /\ Get(match, K_launchCommand, JNull) = JStr(DeadUrl)
    /\ results.fail # <<>> /\ results.fail[Len(results.fail)] = slug

\* C9: when fetch_game ends without a validated buffer the identifier is
\* appended to the failure list, it has no file then or at the summary, and
\* the storage changes only in the step that saves a validated buffer.
C9_FailureLeavesNoFile ==
    /\ []((pc = "sleep" /\ ~Truthy(swf)) =>
            /\ results.fail # <<>> /\ results.fail[Len(results.fail)] = slug
            /\ slug \notin Range(results.ok) \cup Range(results.skip))
    /\ [](\A s \in Range(results.fail) : files[s] = None /\ s \notin Range(results.ok))
    /\ [][files' # files =>
            (pc = "save" /\ is_valid_swf(swf) /\ results'.fail = results.fail)]_vars
    /\ [][(run' = run /\ results'.fail # results.fail) =>
            (files' = files /\ results'.fail = Append(results.fail, slug))]_vars

C9_Witness ==
    /\ pc = "done"
    /\ Len(results.fail) > 1
    /\ \E k \in 1..Len(log) : log[k].kind = "raw" /\ log[k].slug \in Range(results.fail)
    /\ \E s \in Range(results.fail) :
         \A k \in 1..Len(log) : log[k].slug = s => log[k].kind \in {"catalog", "sleep"}

\* C10: in a run over the storage the previous run left, every identifier
\* the previous run retrieved or skipped is skipped again with no request
\* issued for it; when the previous run ended with no failure, the run
\* issues no request at all and leaves the storage as it found it.
Position(s) == CHOOSE k \in 1..Len(GAMES) : GAMES[k] = s

C10_SecondRunSkips ==
    /\ \A s \in Range(prev.results.ok) \cup Range(prev.results.skip) :
         /\ \A k \in 1..Len(log) : log[k].slug # s
         /\ s \notin Range(results.ok) \cup Range(results.fail)
         /\ Position(s) < i => s \in Range(results.skip)
    /\ (prev.pc = "done" /\ prev.results.fail = <<>>) =>
         /\ log = <<>>
         /\ files = prev.files
         /\ pc \in {"main", "done"}
         /\ pc = "done" => results.skip = GAMES

C10_Witness ==
    /\ run > 1 /\ pc = "done"
    /\ prev.pc = "done" /\ prev.results.fail = <<>> /\ prev.results.ok # <<>>
    /\ results.skip = GAMES

\* C11: over any sequence of runs a file is written at most once, and once a
\* file exists, written by the program or present beforehand, no step
\* changes or removes it, writes it again or issues a request for its
\* identifier.
C11_PersistedOnce ==
    [][\A s \in Slugs :
         /\ writes'[s] <= 1
         /\ files[s] # None =>
              /\ files'[s] = files[s]
              /\ writes'[s] = writes[s]
              /\ \A k \in 1..Len(Added) :
                   Added[k].slug = s => Added[k].kind = "sleep"]_vars

C11_Witness ==
    /\ run = 2
    /\ \E s \in Range(results.skip) : writes[s] = 1
    /\ \E s \in Range(results.skip) : writes[s] = 0 /\ files[s] = Bytes(HTML)

\* the three signatures, and what the claims say of a body
Recognized == {<<70,87,83>>, <<67,87,83>>, <<90,87,83>>}
StartsRecognized(b) ==
    b.t = "bytes" /\ Len(b.v) >= 3 /\ SubSeq(b.v, 1, 3) \in Recognized
Requested(kind) == \E k \in 1..Len(log) : log[k].kind = kind
\* the direct step has returned the body of the original host
DirectAccepted == pc \in {"save", "sleep"} /\ ~Requested("cdx")
\* the direct step has returned None
DirectRejected == pc = "wayback" \/ Requested("cdx")

\* C12 as stated: the body of a direct fetch is accepted exactly when its
\* first three bytes are FWS, CWS or ZWS, and a body that starts with FWS
\* ends in the list of retrieved identifiers.
C12_ValidIffSignature ==
    pc # "direct" =>
        /\ DirectAccepted <=> StartsRecognized(direct_body)
        /\ (pc = "sleep" /\ StartsRecognized(direct_body)
              /\ SubSeq(direct_body.v, 1, 3) = <<70,87,83>>)
             => slug \in Range(results.ok)

\* C12, amended: the body of a direct fetch is accepted exactly when it holds
\* at least 8 bytes and its first three bytes are FWS, CWS or ZWS, and such a
\* body that starts with FWS is written and its identifier retrieved.
C12_ValidIffSignatureAndLength ==
    pc # "direct" =>
        /\ DirectAccepted <=>
             (StartsRecognized(direct_body) /\ Len(direct_body.v) >= 8)
        /\ (pc = "sleep" /\ StartsRecognized(direct_body)
              /\ Len(direct_body.v) >= 8
              /\ SubSeq(direct_body.v, 1, 3) = <<70,87,83>>)
             => /\ slug \in Range(results.ok)
                /\ files[slug] = direct_body

C12_Witness ==
    /\ pc = "sleep"
    /\ direct_body = Bytes(<<70,87,83>> \o Pad(5))
    /\ results.ok = <<slug>>

\* what the claims call a body that must be refused
Refused(b) ==
    \/ b = None
    \/ b.t = "bytes" /\ Len(b.v) < 8
    \/ ~StartsRecognized(b)

\* C13: a body that is null, empty, shorter than 8 bytes or does not start
\* with FWS, CWS or ZWS is refused, as the answer of the original host and as
\* the answer of the archive: the direct step returns None, the archive step
\* that downloaded it returns None, and the body is never written.
C13_FailsClosed ==
    /\ (pc # "direct" /\ Refused(direct_body)) =>
          /\ DirectRejected
          /\ files[slug] # None => files[slug] # direct_body
    /\ (Requested("raw") /\ Refused(archive_body)) =>
          /\ pc \in {"save", "sleep"} /\ swf = None
          /\ files[slug] = None
          /\ pc = "sleep" => results.fail = <<slug>>

C13_Witness ==
    /\ pc = "sleep"
    /\ direct_body = Bytes(<<67,87,83>> \o Pad(4))
    /\ archive_body = Bytes(FWS7)
    /\ Requested("raw")
    /\ results.fail = <<slug>>

\* the place of an endpoint in the order of fetch_game
Rank(kind) ==
    CASE kind = "catalog" -> 1
      [] kind = "direct" -> 2
      [] kind = "cdx" -> 3
      [] kind = "raw" -> 4
\* the requests of the run, in order, without the delays
Requests == SelectSeq(log, LAMBDA e : e.kind # "sleep")

\* C14: within a run the requests for one identifier are issued in the order
\* catalog query, direct fetch, archive index query, archive content fetch,
\* each at most once, so at most four; a step issues its requests one after
\* the other, and the requests of one identifier are not interleaved with
\* those of another.
C14_OncePerEndpoint ==
    /\ \A j, k \in 1..Len(Requests) :
         (j < k /\ Requests[j].slug = Requests[k].slug)
            => /\ Rank(Requests[j].kind) < Rank(Requests[k].kind)
               /\ \A m \in j..k : Requests[m].slug = Requests[j].slug
    /\ \A s \in Slugs :
         Len(SelectSeq(Requests, LAMBDA e : e.slug = s)) <= 4

C14_Witness ==
    /\ Len(Requests) >= 4
    /\ \A k \in 1..4 :
         Rank(Requests[k].kind) = k /\ Requests[k].slug = Requests[1].slug
    /\ pc = "main" /\ results.fail # <<>>

Delays(s) == SelectSeq(log, LAMBDA e : e.kind = "sleep" /\ e.slug = s)

\* C15: an identifier recorded as retrieved or unresolved is followed by
\* exactly one delay, taken before anything is done for the next identifier:
\* whenever the log passes from one identifier to another, the entry before
\* is the delay of the first, the only delay between its last request and
\* the first request for the second; a skipped identifier takes no delay.
C15_DelayAfterEachFetch ==
    /\ \A k \in 1..(Len(log) - 1) :
         /\ log[k].slug # log[k + 1].slug
              => /\ log[k].kind = "sleep"
                 /\ log[k + 1].kind # "sleep"
                 /\ k > 1 /\ log[k - 1].kind # "sleep"
                 /\ log[k - 1].slug = log[k].slug
         /\ log[k].kind = "sleep" => log[k + 1].slug # log[k].slug
    /\ \A s \in Range(results.ok) \cup Range(results.fail) :
         IF pc = "sleep" /\ s = slug THEN Len(Delays(s)) = 0
         ELSE Len(Delays(s)) = 1
    /\ \A s \in Range(results.skip) : \A k \in 1..Len(log) : log[k].slug # s

C15_Witness ==
    /\ \E k \in 2..(Len(log) - 1) :
         /\ log[k].kind = "sleep"
         /\ log[k - 1].kind = "raw"
         /\ log[k + 1].kind = "catalog"
    /\ results.ok # <<>> /\ results.fail # <<>>

\* the identifier had a file when the run began
Before(s) ==
    IF run = 1 THEN files[s] # None /\ writes[s] = 0 ELSE prev.files[s] # None
\* the identifiers of a set, in the order of the list
InListOrder(S) == SelectSeq(GAMES, LAMBDA s : s \in S)

\* C16: the three lists of outcomes never share an identifier, each keeps
\* the order of the list, and together they hold exactly the identifiers
\* processed so far; when the summary is printed they hold the whole list,
\* their lengths sum to its length, the already-present list is the
\* identifiers that had a file when the run began, and every retrieved
\* identifier has a file; so for [x, y] with x persisted and y retrieved the
\* summary is already-present [x], retrieved [y], unresolved [].
C16_SummaryPartitions ==
    LET n == Len(results.ok) + Len(results.skip) + Len(results.fail)
    IN  /\ \A o \in {"ok", "skip", "fail"} :
             results[o] = InListOrder(Range(results[o]))
        /\ Range(results.ok) \cap Range(results.skip) = {}
        /\ Range(results.ok) \cap Range(results.fail) = {}
        /\ Range(results.skip) \cap Range(results.fail) = {}
        /\ n <= Len(GAMES)
        /\ Range(results.ok) \cup Range(results.skip) \cup Range(results.fail)
             = {GAMES[k] : k \in 1..n}
        /\ pc = "done" =>
             /\ n = Len(GAMES)
             /\ results.skip = InListOrder({s \in Slugs : Before(s)})
             /\ \A s \in Range(results.ok) : files[s] # None
             /\ \A s \in Range(results.fail) : files[s] = None

C16_Witness ==
    /\ pc = "done" /\ run = 1
    /\ Len(results.skip) >= 1 /\ results.skip[1] = GAMES[1]
    /\ Len(results.ok) >= 1 /\ results.ok[1] = GAMES[2]
    /\ results.fail = <<>>
    /\ files[GAMES[2]] = Bytes(FWS8)
    /\ ~Requested("cdx")

\* the search terms the claim expects for the identifiers of the list
T_Helicopter_Game == <<72,101,108,105,99,111,112,116,101,114,32,71,97,109,101>>
T_Copter == <<67,111,112,116,101,114>>
ExpectedTitle(s) ==
    CASE s = S_copter -> T_Helicopter_Game                          \* override
      [] s = S_feudalism_2 -> <<70,101,117,100,97,108,105,115,109,32,50>>
                                                                \* "Feudalism 2"
      [] s = S_run -> <<82,117,110>>                                \* "Run"
      [] s = S_tanks -> <<84,97,110,107,115>>                       \* "Tanks"

\* C17: the catalog is searched for the override of an identifier that is in
\* the override table, whatever the default transform gives for it, and for
\* the default transform (hyphen and underscore to space, each word
\* capitalised) of an identifier that is not in the table.
C17_OverrideWins ==
    \A k \in 1..Len(log) :
        log[k].kind = "catalog" =>
            /\ log[k].url = SearchUrl(ExpectedTitle(log[k].slug))
            /\ log[k].slug \in DOMAIN TITLE_OVERRIDES
                 => log[k].url = SearchUrl(TITLE_OVERRIDES[log[k].slug])
            /\ log[k].slug = S_copter => log[k].url # SearchUrl(T_Copter)

C17_Witness ==
    /\ \E k \in 1..Len(log) :
         /\ log[k].kind = "catalog" /\ log[k].slug = S_copter
         /\ log[k].url = SearchUrl(T_Helicopter_Game)
    /\ \E k \in 1..Len(log) :
         log[k].kind = "catalog" /\ log[k].slug = S_feudalism_2

\* the rows of an index answer that is a JSON array
IsArray(b) == b.t = "json" /\ b.v[1].t = "list"
Rows(b) == b.v[1].v
\* the answer holds the header at most
NoDataRow(b) == IsArray(b) /\ Len(Rows(b)) <= 1
\* the answer holds a data row [timestamp, statuscode]
DataRow(b) ==
    /\ IsArray(b) /\ Len(Rows(b)) >= 2
    /\ Rows(b)[2].t = "list" /\ Len(Rows(b)[2].v) >= 1
    /\ Rows(b)[2].v[1].t \in {"str", "num"}
\* its timestamp as text; the one number among the answers is 2010
TimestampText(b) ==
    IF Rows(b)[2].v[1].t = "str" THEN Rows(b)[2].v[1].v ELSE <<50,48,49,48>>
ContentFetches == SelectSeq(log, LAMBDA e : e.kind = "raw")

\* C18: once the archive index has answered, an answer with no data row (the
\* empty array, or the header alone) makes the archive step return None with
\* no content fetch; an answer with a data row is followed by exactly one
\* content fetch, of the address made of the timestamp in the first field of
\* the first data row and of the launch command, and the step returns the
\* body of that fetch when it holds at least 8 bytes starting with FWS, CWS
\* or ZWS, and None otherwise.
C18_ArchiveRows ==
    Requested("cdx") =>
        /\ NoDataRow(cdx) =>
             /\ ContentFetches = <<>>
             /\ pc \in {"save", "sleep"} /\ swf = None
        /\ DataRow(cdx) =>
             /\ Len(ContentFetches) = 1
             /\ ContentFetches[1].url =
                  <<104,116,116,112,115,58,47,47,119,101,98,46,97,114,99,104,
                    105,118,101,46,111,114,103,47,119,101,98,47>>
                  \o TimestampText(cdx) \o <<111,101,95,47>> \o launch_cmd.v
             /\ log[Len(log)] = ContentFetches[1]
             /\ pc \in {"save", "sleep"}
             /\ swf = IF Refused(archive_body) THEN None ELSE archive_body

C18_Witness ==
    /\ pc = "save"
    /\ cdx = JsonBody(JList(<<CdxHeader, CdxRow(JNum(2010))>>))
    /\ Len(ContentFetches) = 1
    /\ swf = Bytes(CWS8)

\* C19: when fetch_game has returned, the identifier is in the retrieved
\* list exactly when the call wrote its file, once; the file then holds the
\* body of the direct fetch when that body is valid, and the body of the
\* archive content fetch otherwise; after a valid direct body the archive is
\* not asked at all.
C19_WrittenIsFirstSuccess ==
    /\ writes[slug] <= 1
    /\ ~Refused(direct_body) /\ pc # "direct" =>
          ~Requested("cdx") /\ swf = direct_body
    /\ pc = "sleep" =>
          /\ slug \in Range(results.ok) <=> writes[slug] = 1
          /\ writes[slug] = 1 <=> files[slug] # None
          /\ slug \notin Range(results.ok) => results.fail = <<slug>>
          /\ files[slug] # None =>
               files[slug] = IF ~Refused(direct_body) THEN direct_body
                             ELSE archive_body

C19_Witness ==
    /\ pc = "sleep"
    /\ direct_body = Bytes(<<70,87,83>> \o Pad(4))
    /\ archive_body = Bytes(FWS8)
    /\ files[slug] = Bytes(FWS8)
    /\ results.ok = <<slug>>

\* a step of the run in progress
RunStep == Skip \/ Search \/ Direct \/ Wayback \/ Save \/ Sleep \/ Summary

\* C20: a run stops only after the summary: when no step of the run is
\* left to take, the loop has gone through the whole list, every identifier
\* has been given one outcome, in list order, and the summary was reached.
C20_StopsAtSummary ==
    ~ENABLED RunStep =>
        /\ pc = "done"
        /\ i = Len(GAMES) + 1
        /\ Len(results.ok) + Len(results.skip) + Len(results.fail) = Len(GAMES)
        /\ \A o \in {"ok", "skip", "fail"} :
             results[o] = InListOrder(Range(results[o]))

====
